---- MODULE Spec2Model ----
(***************************************************************************)
(* Model of matrix_rain_gui.py (class MatrixRainGUI): the drop allocator   *)
(* _create_drops, the per-frame animator _update_rain, and the handlers    *)
(* that drive them (open_file, the mode combobox, _reset_rain and the      *)
(* delayed _init_canvas_dimensions callback).                              *)
(*                                                                         *)
(* Tk runs one callback at a time.  pc = "idle" is the event loop; every   *)
(* event handler starts there and no other handler runs until pc is idle   *)
(* again.  The while loop of _create_drops is taken one iteration per      *)
(* step; the for loop of _update_rain is one step.                         *)
(*                                                                         *)
(* The drops of a frame do not interact: _update_rain treats each from its *)
(* own fields.  Spec and SpecE2E therefore follow sweeps in which at most  *)
(* one random.random() < 0.5 draw succeeds, and SpecAlloc follows every    *)
(* sweep of _create_drops up to its return.  SpecOpen records how every    *)
(* open_file call ended, SpecGlyph renders a source byte of every value,   *)
(* and SpecLive leaves the rain to its frames under weak fairness.         *)
(*                                                                         *)
(* Canvas item ids and timer ids are opaque to the program (they are only  *)
(* stored and handed back to delete / after_cancel).  A fresh item id is   *)
(* the least id that is neither on the canvas nor held in drop_items; a    *)
(* fresh timer id is the least id that is not scheduled (line 284 always   *)
(* overwrites _after_id with it).                                          *)
(***************************************************************************)
EXTENDS Integers, Sequences, FiniteSets, TLC

\* ---- bounds of the model ------------------------------------------------
MaxCols == 2
MaxRows == 2
MinTail == 1
MaxTail == 2
MaxFileSize == 2
MaxDraw == 2

\* ---- values --------------------------------------------------------------
\* file_data is None until a file has been read successfully
None == <<-1>>

\* cols / rows before _init_canvas_dimensions has created the attributes
NoAttr == -1

Modes == {"ascii", "hex", "mixed"}

\* the bytes the sample files are made of: 'A', 'B', 'C', NUL, LF, 0xFF, VT, '~'
SampleBytes == <<65, 66, 67, 0, 10, 255, 11, 126>>

\* the file of n bytes that the file dialog can deliver
FileOf(n) == [k \in 1..n |-> SampleBytes[((k - 1) % Len(SampleBytes)) + 1]]

Range(s) == {s[k] : k \in DOMAIN s}

Max2(a, b) == IF a >= b THEN a ELSE b

LeastNotIn(S) == CHOOSE n \in 1..(Cardinality(S) + 1) :
                    n \notin S /\ \A m \in 1..(n - 1) : m \in S

\* ---- random draws ---------------------------------------------------------
\* a draw that can exceed b
randintPast(a, b) == a..(b + 1)

\* random.randint(a, b): both ends included
randint(a, b) == a..b

\* a draw that includes n
randrangeInclusive(n) == {k \in 0..n : k < MaxDraw \/ k = n}

\* random.randrange(n): 0 .. n-1; of a long source only the first MaxDraw
\* values and the last one are drawn
randrange(n) == {k \in 0..(n - 1) : k < MaxDraw \/ k = n - 1}

\* ---- glyph text -----------------------------------------------------------
\* A text is the sequence of the character codes of its characters:
\* "A" is <<65>>, "." is <<46>>, "0A" is <<48, 65>>.

\* string.printable: digits, letters, punctuation and " \t\n\r\x0b\x0c"
string_printable == (32..126) \cup {9, 10, 11, 12, 13}

\* chr(byte) is the one-character string with that code
chr(b) == <<b>>

\* a test that trusts string.printable alone
AsciiTextPrintable(b) == IF b \in string_printable THEN chr(b) ELSE <<46>>

\* line 256
AsciiText(b) ==
  IF b \in string_printable /\ b \notin {11, 12} THEN chr(b) ELSE <<46>>

\* lowercase digits, as the format x gives
HexDigitLower(d) == IF d < 10 THEN 48 + d ELSE 87 + d

\* the code of the uppercase hexadecimal digit d: '0'..'9', 'A'..'F'
HexDigit(d) == IF d < 10 THEN 48 + d ELSE 55 + d

\* line 260: f"{byte:02X}"
HexText(b) == <<HexDigit(b \div 16), HexDigit(b % 16)>>

\* lines 254-260
GlyphText(b, mode) == IF mode = "ascii" THEN AsciiText(b) ELSE HexText(b)

\* ---- state ----------------------------------------------------------------
VARIABLES
  file_data,     \* self.file_data: None or the bytes of the file
  file_size,     \* self.file_size
  mode_var,      \* self.mode_var (the combobox selection)
  cols, rows,    \* self.cols, self.rows
  min_tail, max_tail,
  drops,         \* self.drops: sequence of drop records
  drop_items,    \* self.drop_items: per drop, canvas item ids, oldest first
  canvas,        \* the text items on the canvas: [id, y], y the grid row
  running,       \* self.running
  after_id,      \* self._after_id (0: attribute missing)
  pending,       \* ids of the scheduled _update_rain callbacks
  init_pending,  \* the after(100, _init_canvas_dimensions) callback is due
  pc,            \* "idle" or the position inside the running handler
  caller,        \* who called _create_drops: "callback", "reset_init", "reset"
  cx, occupied, cmode,   \* locals x, occupied, mode of _create_drops
                 \* (0, <<>>, "mixed" while it is not running)
  ev,            \* per drop: what the last step did to it, the index it
                 \* read and the text it drew
  ticks, once,   \* _update_rain passes since allocation; drops recycled since
  watch,         \* number of passes that ticks counts (0: not counted)
  opened         \* how the last open_file call ended ("off": not recorded)

vars == <<file_data, file_size, mode_var, cols, rows, min_tail, max_tail,
          drops, drop_items, canvas, running, after_id, pending, init_pending,
          pc, caller, cx, occupied, cmode, ev, ticks, once, watch, opened>>

config == <<file_data, file_size, mode_var, cols, rows, min_tail, max_tail>>
locals == <<cx, occupied, cmode>>
dropvars == <<drops, drop_items, ev>>
observer == <<ticks, once, watch, opened>>

\* state after MatrixRainGUI.__init__
Init ==
  /\ file_data = None
  /\ file_size = 0
  /\ mode_var = "mixed"
  /\ cols = NoAttr
  /\ rows = NoAttr
  /\ min_tail = MinTail
  /\ max_tail = MaxTail
  /\ drops = <<>>
  /\ drop_items = <<>>
  /\ canvas = {}
  /\ running = FALSE
  /\ after_id = 0
  /\ pending = {}
  /\ init_pending = TRUE
  /\ pc = "idle"
  /\ caller = "none"
  /\ cx = 0
  /\ occupied = <<>>
  /\ cmode = "mixed"
  /\ ev = <<>>
  /\ ticks = 0
  /\ once = {}
  /\ watch = 0
  /\ opened = "off"

\* ---- _create_drops --------------------------------------------------------
\* the canvas size in character cells that winfo_width/height // char size
\* gives: no cell, one cell or the most cells in each direction
GridSizes == {0, 1, MaxCols} \X {0, 1, MaxRows}

\* where _create_drops returns to
ReturnTo(c) == IF c = "reset_init" THEN "create_enter"
               ELSE IF c = "reset" THEN "update"
               ELSE "idle"

NextCaller(c) == IF c = "reset_init" THEN "reset" ELSE "none"

\* lines 157-166: the guard, the locals, the clearing of the lists, on a
\* grid of ncols by nrows, called by c
CreateEntry(ncols, nrows, c) ==
  IF ncols < 1 \/ nrows < 1
  THEN /\ pc' = ReturnTo(c)
       /\ caller' = NextCaller(c)
       /\ UNCHANGED <<locals, dropvars, ticks, once>>
  ELSE /\ cmode' = mode_var
       /\ occupied' = [k \in 1..ncols |-> FALSE]
       /\ drops' = <<>>
       /\ drop_items' = <<>>
       /\ ev' = <<>>
       /\ cx' = 0
       /\ ticks' = 0
       /\ once' = {}
       /\ pc' = "create_loop"
       /\ caller' = c

\* line 150: _reset_rain calls _create_drops
CreateEnter ==
  /\ pc = "create_enter"
  /\ CreateEntry(cols, rows, caller)
  /\ UNCHANGED <<config, canvas, running, after_id, pending, init_pending, watch,
                 opened>>

\* lines 172-181: the widths the mode allows at column x
Widths(mode, x, ncols) ==
  IF mode = "hex" THEN {2}
  ELSE IF mode = "ascii" THEN {1}
  ELSE {IF choice /\ x < ncols - 1 THEN 2 ELSE 1 : choice \in BOOLEAN}

\* a sweep that visits every column and never consults occupied
SweepNoCheck(x, occ, width, ncols) ==
  IF width = 2 /\ x >= ncols - 1
  THEN [place |-> FALSE, occ |-> occ, x |-> x + 1]
  ELSE [place |-> TRUE,
        occ |-> [k \in DOMAIN occ |-> occ[k] \/ (k - 1 \in x..(x + width - 1))],
        x |-> x + 1]

\* lines 182-192 and 208: skip or claim the columns [x, x+width)
Sweep(x, occ, width, ncols) ==
  IF width = 2 /\ x >= ncols - 1
  THEN [place |-> FALSE, occ |-> occ, x |-> x + 1]
  ELSE IF \E k \in x..(x + width - 1) : k + 1 \in DOMAIN occ /\ occ[k + 1]
  THEN [place |-> FALSE, occ |-> occ, x |-> x + 1]
  ELSE [place |-> TRUE,
        occ |-> [k \in DOMAIN occ |-> occ[k] \/ (k - 1 \in x..(x + width - 1))],
        x |-> x + width]

\* lines 200-204: the per-drop mode
DropModes(mode) == IF mode = "mixed" THEN {"ascii", "hex"} ELSE {mode}

\* lines 194-204: the drops that can be created at column x with this width
NewDrops(x, width, mode) ==
  {[x |-> x, y |-> -k, width |-> width, tail |-> t, index |-> n, mode |-> m] :
     k \in randint(0, rows), t \in randint(min_tail, max_tail),
     n \in randrange(file_size), m \in DropModes(mode)}

\* one iteration of the while loop (lines 168-210); at most maxDrops of the
\* random.random() < 0.5 draws of one sweep come out true
CreateLoop(maxDrops) ==
  /\ pc = "create_loop"
  /\ cx < cols
  /\ \E coin \in BOOLEAN :
       IF ~coin \/ Len(drops) >= maxDrops
       THEN /\ cx' = cx + 1
            /\ UNCHANGED <<occupied, dropvars>>
       ELSE \E width \in Widths(cmode, cx, cols) :
              LET s == Sweep(cx, occupied, width, cols) IN
              /\ cx' = s.x
              /\ occupied' = s.occ
              /\ IF s.place
                 THEN \E d \in NewDrops(cx, width, cmode) :
                        /\ drops' = Append(drops, d)
                        /\ drop_items' = Append(drop_items, <<>>)
                        /\ ev' = Append(ev, [kind |-> "alloc", src |-> -1, text |-> <<>>])
                 ELSE UNCHANGED dropvars
  /\ UNCHANGED <<config, canvas, running, after_id, pending, init_pending,
                 pc, caller, cmode, observer>>

\* the loop condition x < self.cols fails: _create_drops returns and its
\* locals are gone
CreateReturn ==
  /\ pc = "create_loop"
  /\ cx >= cols
  /\ pc' = ReturnTo(caller)
  /\ caller' = NextCaller(caller)
  /\ cx' = 0
  /\ occupied' = <<>>
  /\ cmode' = "mixed"
  /\ UNCHANGED <<config, canvas, running, after_id, pending, init_pending,
                 dropvars, observer>>

\* ---- _update_rain ----------------------------------------------------------
\* a recycle test that waits one row too long
ShouldRecycleStrict(d, nrows) == d.y - d.tail > nrows

\* a recycle test that forgets the tail
ShouldRecycleHead(d, nrows) == d.y >= nrows

\* line 219: the drop has scrolled off the bottom, tail included
ShouldRecycle(d, nrows) == d.y - d.tail >= nrows

\* a head that falls two rows per frame
AdvanceTwo(y) == y + 2

\* a head that stays where it is
AdvanceStuck(y) == y

\* line 250: the head moves down one row
Advance(y) == y + 1

\* an index that is not wrapped
NextIndexNoWrap(index, size) == index + 1

\* line 276: the file index advances and wraps around
NextIndex(index, size) == (index + 1) % size

\* lines 221-231: the width of a recycled drop under the global mode; the
\* readonly combobox only holds "ascii", "hex" and "mixed", so one of the
\* three branches always replaces the old width
RecycleWidths(gm, ncols) ==
  IF gm = "mixed" THEN {IF w = 2 /\ ncols < 2 THEN 1 ELSE w : w \in {1, 2}}
  ELSE IF gm = "ascii" THEN {1}
  ELSE {2}

\* lines 233-234: max_x and the new column
RecycleXs(width, ncols) ==
  LET max_x == Max2(0, ncols - width)
  IN  IF max_x > 0 THEN randint(0, max_x) ELSE {0}

\* lines 220-243: the records a recycled drop can become
RecycleDraws(gm) ==
  {[x |-> x, y |-> -k, width |-> w, tail |-> t, index |-> n, mode |-> m] :
     <<w, x>> \in {<<w1, x1>> \in {1, 2} \X (0..Max2(0, cols)) :
                     w1 \in RecycleWidths(gm, cols) /\ x1 \in RecycleXs(w1, cols)},
     k \in randint(0, rows), t \in randint(min_tail, max_tail),
     n \in randrange(file_size), m \in DropModes(gm)}

HeldIds(items) == UNION {Range(items[i]) : i \in DOMAIN items}

\* the id canvas.create_text returns
NewItemId(st) == LeastNotIn({it.id : it \in st.canvas} \cup HeldIds(st.items))

\* a trim that pops the newest item
RECURSIVE TrimNewest(_, _, _)
TrimNewest(hist, cv, tail) ==
  IF Len(hist) > tail
  THEN TrimNewest(SubSeq(hist, 1, Len(hist) - 1),
                  {it \in cv : it.id # hist[Len(hist)]}, tail)
  ELSE [items |-> hist, canvas |-> cv]

\* lines 280-282: delete the oldest items until the tail length holds
RECURSIVE TrimTail(_, _, _)
TrimTail(hist, cv, tail) ==
  IF Len(hist) > tail
  THEN TrimTail(Tail(hist), {it \in cv : it.id # Head(hist)}, tail)
  ELSE [items |-> hist, canvas |-> cv]

\* lines 219-282: the body of the for loop for drop i; st holds drops,
\* items (drop_items), canvas and ev; rc[i] is what the random draws of a
\* recycle give
UpdateDrop(i, st, rc) ==
  LET d == st.drops[i] IN
  IF ShouldRecycle(d, rows)
  THEN [drops  |-> [st.drops EXCEPT ![i] = rc[i]],
        items  |-> [st.items EXCEPT ![i] = <<>>],
        canvas |-> {it \in st.canvas : it.id \notin Range(st.items[i])},
        ev     |-> [st.ev EXCEPT ![i] = [kind |-> "recycle", src |-> -1, text |-> <<>>]]]
  ELSE
    LET y1      == Advance(d.y)
        visible == 0 <= y1 /\ y1 < rows
        id      == NewItemId(st)
        item    == [id |-> id, y |-> y1]
        hist1   == IF visible THEN Append(st.items[i], id) ELSE st.items[i]
        cv1     == IF visible THEN st.canvas \cup {item} ELSE st.canvas
        index1  == IF visible THEN NextIndex(d.index, file_size) ELSE d.index
        tr      == TrimTail(hist1, cv1, d.tail)
    IN  [drops  |-> [st.drops EXCEPT ![i] = [d EXCEPT !.y = y1, !.index = index1]],
         items  |-> [st.items EXCEPT ![i] = tr.items],
         canvas |-> tr.canvas,
         ev     |-> [st.ev EXCEPT ![i] =
                       IF visible
                       THEN [kind |-> "render", src |-> d.index,
                             text |-> GlyphText(file_data[d.index + 1], d.mode)]
                       ELSE [kind |-> "move", src |-> -1, text |-> <<>>]]]

\* the for loop of line 217, drops i .. last
RECURSIVE UpdateFrom(_, _, _)
UpdateFrom(i, st, rc) ==
  IF i > Len(st.drops) THEN st ELSE UpdateFrom(i + 1, UpdateDrop(i, st, rc), rc)

Recycling == {i \in DOMAIN drops : ShouldRecycle(drops[i], rows)}

\* lines 214-284, entered with self.running = run while the callbacks in
\* pend are scheduled
UpdateRain(run, pend) ==
  IF ~run
  THEN /\ pending' = pend
       /\ UNCHANGED <<dropvars, canvas, after_id, ticks, once>>
  ELSE
    \E rc \in [Recycling -> RecycleDraws(mode_var)] :
      /\ LET st == UpdateFrom(1, [drops |-> drops, items |-> drop_items,
                                  canvas |-> canvas, ev |-> ev], rc)
             id == LeastNotIn(pend)
         IN  /\ drops' = st.drops
             /\ drop_items' = st.items
             /\ canvas' = st.canvas
             /\ ev' = st.ev
             /\ after_id' = id
             /\ pending' = pend \cup {id}
      /\ ticks' = IF ticks < watch THEN ticks + 1 ELSE ticks
      /\ once' = IF watch > 0 THEN once \cup Recycling ELSE once

\* the timer fires a scheduled _update_rain
Tick ==
  /\ pc = "idle"
  /\ \E t \in pending : UpdateRain(running, pending \ {t})
  /\ UNCHANGED <<config, running, init_pending, pc, caller, locals, watch,
                 opened>>

\* lines 152-153 of _reset_rain: running = True and the first _update_rain
ResetUpdate ==
  /\ pc = "update"
  /\ running' = TRUE
  /\ UpdateRain(TRUE, pending)
  /\ pc' = "idle"
  /\ UNCHANGED <<config, init_pending, caller, locals, watch, opened>>

\* ---- handlers -------------------------------------------------------------
\* a reset that leaves the canvas as it is
DeleteNone(cv) == cv

\* line 141: canvas.delete("all")
DeleteAll(cv) == {}

\* a reset that cancels nothing
AfterCancelNone(pend, id) == pend

\* lines 138-139: after_cancel(self._after_id) where the attribute is set
AfterCancel(pend, id) == IF id # 0 THEN pend \ {id} ELSE pend

\* lines 137-148 of _reset_rain, up to its call of _init_canvas_dimensions;
\* fd is self.file_data
ResetRain(fd) ==
  /\ pending' = AfterCancel(pending, after_id)
  /\ canvas' = DeleteAll(canvas)
  /\ drops' = <<>>
  /\ drop_items' = <<>>
  /\ ev' = <<>>
  /\ ticks' = 0
  /\ once' = {}
  /\ IF fd = None
     THEN UNCHANGED <<pc, caller>>
     ELSE pc' = "init_dims" /\ caller' = "reset_init"
  /\ UNCHANGED <<cols, rows, min_tail, max_tail, running, after_id,
                 init_pending, locals, watch>>

\* the lengths of the files the dialog can deliver: empty, one byte, the
\* longest
FileSizes == {0, 1, MaxFileSize}

\* an emptiness test that lets every file through
IsEmptyNever(data) == FALSE

\* line 128: not data
IsEmpty(data) == Len(data) = 0

\* the record of how an open_file call ended, where one is kept
Note(outcome) == IF opened = "off" THEN "off" ELSE outcome

\* what open_file leaves alone when it returns at line 121, 127 or 130
OpenFileReturns(outcome) ==
  /\ opened' = Note(outcome)
  /\ UNCHANGED <<config, dropvars, canvas, running, after_id, pending,
                 init_pending, pc, caller, locals, ticks, once, watch>>

\* open_file: the dialog is cancelled, the read fails, or n bytes are read
OpenFile ==
  /\ pc = "idle"
  /\ \E outcome \in {"cancel", "oserror", "read"} :
       IF outcome # "read"
       THEN OpenFileReturns(outcome)
       ELSE \E n \in FileSizes :
              LET data == FileOf(n) IN
              IF IsEmpty(data)
              THEN OpenFileReturns("empty")
              ELSE /\ file_data' = data
                   /\ file_size' = Len(data)
                   /\ opened' = Note("read")
                   /\ UNCHANGED mode_var
                   /\ ResetRain(data)

\* <<ComboboxSelected>>: the user picks mode m, the binding calls _reset_rain
ModeSelected ==
  /\ pc = "idle"
  /\ \E m \in Modes :
       /\ mode_var' = m
       /\ UNCHANGED <<file_data, file_size, opened>>
       /\ ResetRain(file_data)

\* the after(100, self._init_canvas_dimensions) callback of __init__ fires
InitCanvasCallback ==
  /\ pc = "idle"
  /\ init_pending
  /\ init_pending' = FALSE
  /\ pc' = "init_dims"
  /\ caller' = "callback"
  /\ UNCHANGED <<config, dropvars, canvas, running, after_id, pending, locals,
                 observer>>

\* _init_canvas_dimensions, lines 108-115: the canvas is g[1] by g[2] cells;
\* with a file loaded it calls _create_drops
InitCanvasDimensions ==
  /\ pc = "init_dims"
  /\ \E g \in GridSizes :
       /\ cols' = g[1]
       /\ rows' = g[2]
       /\ IF file_data # None
          THEN CreateEntry(g[1], g[2], caller)
          ELSE /\ pc' = "idle"
               /\ caller' = "none"
               /\ UNCHANGED <<locals, dropvars, ticks, once>>
  /\ UNCHANGED <<file_data, file_size, mode_var, min_tail, max_tail,
                 canvas, running, after_id, pending, init_pending, watch, opened>>

Next ==
  \/ OpenFile
  \/ ModeSelected
  \/ InitCanvasCallback
  \/ InitCanvasDimensions
  \/ CreateEnter
  \/ CreateLoop(1)
  \/ CreateReturn
  \/ ResetUpdate
  \/ Tick

Spec == Init /\ [][Next]_vars

\* ---- the allocator alone ---------------------------------------------------
\* _reset_rain has reached line 148 for the first time, with some file and mode
InitAlloc ==
  /\ \E n \in 1..MaxFileSize : file_data = FileOf(n) /\ file_size = n
  /\ mode_var \in Modes
  /\ cols = NoAttr
  /\ rows = NoAttr
  /\ min_tail = MinTail
  /\ max_tail = MaxTail
  /\ drops = <<>>
  /\ drop_items = <<>>
  /\ canvas = {}
  /\ running = FALSE
  /\ after_id = 0
  /\ pending = {}
  /\ init_pending \in BOOLEAN
  /\ pc = "init_dims"
  /\ caller = "reset_init"
  /\ cx = 0
  /\ occupied = <<>>
  /\ cmode = "mixed"
  /\ ev = <<>>
  /\ ticks = 0
  /\ once = {}
  /\ watch = 0
  /\ opened = "off"

\* every sweep: a sweep places at most one drop per column
NextAlloc ==
  \/ InitCanvasDimensions
  \/ CreateEnter
  \/ CreateLoop(MaxCols)
  \/ CreateReturn

SpecAlloc == InitAlloc /\ [][NextAlloc]_vars

\* ---- the end-to-end scenario ----------------------------------------------
\* _reset_rain has reached line 150 on a grid of 4 columns by 10 rows, in
\* ascii mode, with a source of 100 bytes and min_tail = max_tail = 2
InitE2E ==
  /\ file_data = FileOf(100)
  /\ file_size = 100
  /\ mode_var = "ascii"
  /\ cols = 4
  /\ rows = 10
  /\ min_tail = 2
  /\ max_tail = 2
  /\ drops = <<>>
  /\ drop_items = <<>>
  /\ canvas = {}
  /\ running = FALSE
  /\ after_id = 0
  /\ pending = {}
  /\ init_pending = FALSE
  /\ pc = "create_enter"
  /\ caller = "reset"
  /\ cx = 0
  /\ occupied = <<>>
  /\ cmode = "mixed"
  /\ ev = <<>>
  /\ ticks = 0
  /\ once = {}
  /\ watch = 24
  /\ opened = "off"

\* the allocation and then the frames the observer counts
NextE2E ==
  \/ CreateEnter
  \/ CreateLoop(1)
  \/ CreateReturn
  \/ ResetUpdate
  \/ (ticks < watch /\ Tick)

SpecE2E == InitE2E /\ [][NextE2E]_vars

\* ---- open_file observed ------------------------------------------------------
\* the delayed callback has measured the canvas before any file was opened;
\* from here on the outcome of every open_file call is recorded
InitOpen ==
  /\ file_data = None
  /\ file_size = 0
  /\ mode_var \in Modes
  /\ \E g \in GridSizes : cols = g[1] /\ rows = g[2]
  /\ min_tail = MinTail
  /\ max_tail = MaxTail
  /\ drops = <<>>
  /\ drop_items = <<>>
  /\ canvas = {}
  /\ running = FALSE
  /\ after_id = 0
  /\ pending = {}
  /\ init_pending = FALSE
  /\ pc = "idle"
  /\ caller = "none"
  /\ cx = 0
  /\ occupied = <<>>
  /\ cmode = "mixed"
  /\ ev = <<>>
  /\ ticks = 0
  /\ once = {}
  /\ watch = 0
  /\ opened = "none"

NextOpen ==
  \/ OpenFile
  \/ ModeSelected
  \/ InitCanvasDimensions
  \/ CreateEnter
  \/ CreateLoop(1)
  \/ CreateReturn
  \/ ResetUpdate
  \/ Tick

SpecOpen == InitOpen /\ [][NextOpen]_vars

\* ---- every byte value rendered ------------------------------------------------
Bytes == 0..255

\* _reset_rain has reached line 150 with a source of one byte of any value,
\* in ascii or hex mode, on a grid of 2 columns by 1 row, min_tail =
\* max_tail = 1
InitGlyph ==
  /\ \E b \in Bytes : file_data = <<b>>
  /\ file_size = 1
  /\ mode_var \in {"ascii", "hex"}
  /\ cols = 2
  /\ rows = 1
  /\ min_tail = 1
  /\ max_tail = 1
  /\ drops = <<>>
  /\ drop_items = <<>>
  /\ canvas = {}
  /\ running = FALSE
  /\ after_id = 0
  /\ pending = {}
  /\ init_pending = FALSE
  /\ pc = "create_enter"
  /\ caller = "reset"
  /\ cx = 0
  /\ occupied = <<>>
  /\ cmode = "mixed"
  /\ ev = <<>>
  /\ ticks = 0
  /\ once = {}
  /\ watch = 0
  /\ opened = "off"

NextGlyph ==
  \/ CreateEnter
  \/ CreateLoop(1)
  \/ CreateReturn
  \/ ResetUpdate
  \/ Tick

SpecGlyph == InitGlyph /\ [][NextGlyph]_vars

\* ---- the rain left to itself --------------------------------------------------
\* _reset_rain has reached line 150 with a source of one byte, on a grid of
\* 2 columns and at least one row; no handler other than the frames runs
\* afterwards
InitLive ==
  /\ file_data = FileOf(1)
  /\ file_size = 1
  /\ mode_var \in Modes
  /\ cols = 2
  /\ rows \in 1..MaxRows
  /\ min_tail = MinTail
  /\ max_tail = MaxTail
  /\ drops = <<>>
  /\ drop_items = <<>>
  /\ canvas = {}
  /\ running = FALSE
  /\ after_id = 0
  /\ pending = {}
  /\ init_pending = FALSE
  /\ pc = "create_enter"
  /\ caller = "reset"
  /\ cx = 0
  /\ occupied = <<>>
  /\ cmode = "mixed"
  /\ ev = <<>>
  /\ ticks = 0
  /\ once = {}
  /\ watch = 0
  /\ opened = "off"

NextLive ==
  \/ CreateEnter
  \/ CreateLoop(1)
  \/ CreateReturn
  \/ ResetUpdate
  \/ Tick

\* _reset_rain runs its first frame at once (line 153), and the Tk timer
\* fires every callback that after() has scheduled (line 284)
SpecLive ==
  InitLive /\ [][NextLive]_vars /\ WF_vars(ResetUpdate) /\ WF_vars(Tick)

\* ---- properties ------------------------------------------------------------
ItemIds(cv) == {it.id : it \in cv}

\* a step that runs _update_rain over drops that stay in place in the list
UpdateStep ==
  /\ pc \in {"idle", "update"}
  /\ pc' = "idle"
  /\ opened' = opened
  /\ DOMAIN drops' = DOMAIN drops
  /\ DOMAIN drop_items' = DOMAIN drops
  /\ DOMAIN ev' = DOMAIN drops

Disjoint(a, b) == a.x + a.width <= b.x \/ b.x + b.width <= a.x

\* C1: in every state of a run of _create_drops, from its first iteration to
\* its return, any two distinct drops of the drop set occupy disjoint column
\* ranges [x, x+width), whatever the columns, the rows and the display mode.
NonOverlap ==
  \A i, j \in DOMAIN drops : i # j => Disjoint(drops[i], drops[j])

\* a sweep has returned with two drops placed
NonOverlapWitness ==
  /\ pc = "update"
  /\ Len(drops) >= 2

\* C2: every drop of every reachable state lies inside the grid:
\* 0 <= x and x + width <= cols.
ColumnBound ==
  \A i \in DOMAIN drops : 0 <= drops[i].x /\ drops[i].x + drops[i].width <= cols

\* C3: in every reachable state the index of every drop is a position of the
\* byte source: 0 <= index < file_size, and file_data has a byte there.
CursorBound ==
  \A i \in DOMAIN drops :
    /\ 0 <= drops[i].index
    /\ drops[i].index < file_size
    /\ drops[i].index + 1 \in DOMAIN file_data

\* a drop has just rendered the last byte of a two-byte source and wrapped
CursorBoundWitness ==
  \E i \in DOMAIN drops :
    /\ ev[i].kind = "render"
    /\ file_size = 2
    /\ ev[i].src = 1
    /\ drops[i].index = 0

TailInv ==
  \A i \in DOMAIN drops :
    /\ Len(drop_items[i]) <= drops[i].tail
    /\ Range(drop_items[i]) \subseteq ItemIds(canvas)

\* what a frame does to the history of drop i: a recycle empties it and
\* releases every handle; otherwise the new handle, if one was drawn, is
\* appended, the newest handles are kept in order up to the tail length and
\* the others, the oldest ones, are released
TailStep ==
  UpdateStep =>
    \A i \in DOMAIN drops :
      LET old   == drop_items[i]
          new   == drop_items'[i]
          drawn == IF ev'[i].kind = "render" THEN 1 ELSE 0
          kept  == Len(new) - drawn
      IN  IF ev'[i].kind = "recycle"
          THEN new = <<>> /\ Range(old) \cap ItemIds(canvas') = {}
          ELSE /\ kept >= 0
               /\ kept <= Len(old)
               /\ Len(new) <= drops'[i].tail
               /\ Len(new) = Len(old) + drawn \/ Len(new) = drops'[i].tail
               /\ SubSeq(new, 1, kept) = SubSeq(old, Len(old) - kept + 1, Len(old))
               /\ drawn = 1 => new[Len(new)] \notin Range(old)
               /\ \A k \in 1..(Len(old) - kept) : old[k] \notin ItemIds(canvas')

\* C4: the history of every drop holds at most tail handles, all of them live,
\* in every reachable state, and every frame keeps the newest handles and
\* releases the oldest ones (all of them when the drop recycles).
TailBound == []TailInv /\ [][TailStep]_vars

\* a drop that has drawn more glyphs than its tail holds
TailBoundWitness ==
  \E i \in DOMAIN drops :
    /\ ev[i].kind = "render"
    /\ drops[i].y >= drops[i].tail
    /\ Len(drop_items[i]) = drops[i].tail

\* C5: in a frame a drop is recycled if and only if y - tail >= rows held for
\* it when the frame began; a recycled drop has its history released and
\* emptied, draws nothing and is not advanced (its head row is the fresh
\* -randint(0, rows)); every other drop is advanced.
RecycleTrigger ==
  [][UpdateStep =>
       \A i \in DOMAIN drops :
         LET due == drops[i].y - drops[i].tail >= rows IN
         /\ (ev'[i].kind = "recycle") <=> due
         /\ due => /\ drop_items'[i] = <<>>
                   /\ Range(drop_items[i]) \cap ItemIds(canvas') = {}
                   /\ ev'[i].text = <<>>
                   /\ drops'[i].y <= 0
                   /\ drops'[i].y >= -rows
         /\ ~due => /\ drops'[i].y > drops[i].y
                    /\ ev'[i].kind \in {"move", "render"}]_vars

\* a drop that the last frame recycled
RecycleTriggerWitness ==
  \E i \in DOMAIN drops : ev[i].kind = "recycle" /\ pc = "idle"

\* C6, as stated: every frame moves the head of every drop down one row.
AdvanceEveryDrop ==
  [][UpdateStep => \A i \in DOMAIN drops : drops'[i].y = drops[i].y + 1]_vars

\* C6, amended: every frame moves the head of every drop that it does not
\* recycle down exactly one row; the head of a drop that it recycles is set
\* to a row of -rows .. 0 instead.
AdvanceUnlessRecycled ==
  [][UpdateStep =>
       \A i \in DOMAIN drops :
         IF drops[i].y - drops[i].tail >= rows
         THEN drops'[i].y \in (-rows)..0
         ELSE drops'[i].y = drops[i].y + 1]_vars

\* a frame has moved a drop without drawing it, another has recycled one
AdvanceWitness ==
  /\ pc = "idle"
  /\ \E i \in DOMAIN drops : ev[i].kind = "move" /\ drops[i].y >= rows + 1

\* C7, as stated: in the end-to-end scenario every drop has width 1 and tail
\* 2, and after rows + tail = 12 frames every drop has been recycled.
E2ERecycledAfter12 ==
  \A i \in DOMAIN drops :
    /\ drops[i].width = 1
    /\ drops[i].tail = 2
    /\ ticks >= 12 => i \in once

\* C7, amended: in the end-to-end scenario every drop has width 1 and tail 2;
\* no drop has been recycled after 12 frames, and every drop has been
\* recycled after 2 * rows + tail + 1 = 23 frames.
E2ERecycledAfter23 ==
  \A i \in DOMAIN drops :
    /\ drops[i].width = 1
    /\ drops[i].tail = 2
    /\ ticks <= 12 => i \notin once
    /\ ticks >= 23 => i \in once

\* 23 frames after the allocation the drop has been recycled
E2EWitness ==
  /\ ticks = 23
  /\ drops # <<>>
  /\ once = DOMAIN drops

\* C8: a frame that draws drop i draws the byte at its index, in its mode, and
\* moves the index to (index + 1) mod file_size, so that two frames in a row
\* that draw it read consecutive positions modulo the length; a frame that
\* moves it without drawing leaves the index alone.
Wraparound ==
  [][UpdateStep =>
       \A i \in DOMAIN drops :
         /\ ev'[i].kind = "render" =>
              /\ ev'[i].src = drops[i].index
              /\ ev'[i].text = GlyphText(file_data[drops[i].index + 1], drops[i].mode)
              /\ drops'[i].index = (drops[i].index + 1) % file_size
              /\ ev[i].kind = "render" => ev'[i].src = (ev[i].src + 1) % file_size
         /\ ev'[i].kind = "move" => drops'[i].index = drops[i].index]_vars

\* an ascii drop over the source "AB" has drawn B and then, wrapped, A
WraparoundWitness ==
  \E i \in DOMAIN drops :
    /\ file_size = 2
    /\ drops[i].mode = "ascii"
    /\ Len(drop_items[i]) = 2
    /\ ev[i].kind = "render"
    /\ ev[i].src = 0
    /\ ev[i].text = <<65>>
    /\ drops[i].index = 1

\* C9: every drop has width 1 exactly when its mode is ascii and width 2
\* exactly when its mode is hex, and its mode is never mixed.
WidthModeConsistent ==
  \A i \in DOMAIN drops :
    /\ drops[i].mode \in {"ascii", "hex"}
    /\ drops[i].width = 1 <=> drops[i].mode = "ascii"
    /\ drops[i].width = 2 <=> drops[i].mode = "hex"

\* inside _reset_rain, from line 147 to the first _update_rain
InReset == caller \in {"reset_init", "reset"} \/ pc = "update"

ResetInv ==
  InReset =>
    /\ canvas = {}
    /\ \A i \in DOMAIN drops :
         /\ drop_items[i] = <<>>
         /\ ev[i].kind = "alloc"
    /\ Len(drop_items) = Len(drops)

\* C10: from the moment _reset_rain has cleared the canvas and the lists until
\* it starts the first frame, no canvas item exists and every drop is one the
\* allocator has just created, with an empty history; the items left by the
\* first frame are exactly the ones its drops hold.
ResetCarriesNothing ==
  []ResetInv /\ [][pc = "update" => ItemIds(canvas') = HeldIds(drop_items')]_vars

\* a reset of a running animation has allocated a drop
ResetWitness ==
  /\ pc = "update"
  /\ running
  /\ after_id # 0
  /\ drops # <<>>

\* a frame over an empty drop set
EmptyTick == UpdateStep /\ drops = <<>>

\* C11: whenever the grid has no column or no row, the drop set that
\* _reset_rain or _create_drops leaves is empty; a frame over an empty drop
\* set changes no drop and neither draws nor releases a glyph.
DegenerateGrid ==
  /\ []((pc \in {"idle", "update"} /\ (cols = 0 \/ rows = 0)) => drops = <<>>)
  /\ [][EmptyTick => drops' = <<>> /\ drop_items' = <<>> /\ canvas' = canvas]_vars

\* an open_file call that returns at line 121, 127 or 130
OpenFails ==
  /\ pc = "idle"
  /\ pc' = "idle"
  /\ opened' # opened
  /\ opened' \in {"cancel", "oserror", "empty"}

\* C12: whenever the animation is running, a frame is scheduled or a drop
\* exists, file_data is set and holds file_size >= 1 bytes; an open_file call
\* that is cancelled, fails to read or reads an empty file leaves file_data,
\* file_size, the drops, their histories, the canvas and the scheduled frame
\* as they were.
EmptyNeverAnimated ==
  /\ []((running \/ pending # {} \/ drops # <<>>) =>
          /\ file_data # None
          /\ file_size >= 1
          /\ Len(file_data) = file_size)
  /\ [][OpenFails => UNCHANGED <<file_data, file_size, drops, drop_items,
                                 canvas, running, after_id, pending>>]_vars

\* the dialog delivered an empty file while the rain of another file is shown
EmptyNeverAnimatedWitness ==
  /\ opened = "empty"
  /\ running
  /\ drops # <<>>
  /\ canvas # {}
  /\ pending # {}

\* the byte that the last frame drew for drop i
Drawn(i) == file_data[ev[i].src + 1]

UpperHex == <<48, 49, 50, 51, 52, 53, 54, 55, 56, 57, 65, 66, 67, 68, 69, 70>>

\* the value of a text of hexadecimal digits
RECURSIVE HexValue(_)
HexValue(t) ==
  IF t = <<>> THEN 0
  ELSE LET c == t[Len(t)]
           v == CHOOSE k \in 0..15 : UpperHex[k + 1] = c
       IN  16 * HexValue(SubSeq(t, 1, Len(t) - 1)) + v

\* C14: the text a hex drop draws for a byte of 0..255 has exactly two
\* characters, both of "0123456789ABCDEF", and reads as the byte in base 16
\* (0x0A is drawn as "0A", 0xFF as "FF").
HexMapping ==
  \A i \in DOMAIN drops :
    (ev[i].kind = "render" /\ drops[i].mode = "hex") =>
      /\ Len(ev[i].text) = 2
      /\ \A k \in 1..2 : ev[i].text[k] \in Range(UpperHex)
      /\ HexValue(ev[i].text) = Drawn(i)
      /\ Drawn(i) = 10 => ev[i].text = <<48, 65>>
      /\ Drawn(i) = 255 => ev[i].text = <<70, 70>>

\* a hex drop has drawn the byte 0x0A as "0A"
HexMappingWitness ==
  \E i \in DOMAIN drops :
    /\ ev[i].kind = "render"
    /\ drops[i].mode = "hex"
    /\ Drawn(i) = 10
    /\ ev[i].text = <<48, 65>>

\* the rows of the glyphs that drop i holds
HeldRows(i) == {it.y : it \in {c \in canvas : c.id \in Range(drop_items[i])}}

\* C15: whenever a frame is about to recycle a drop (y - tail >= rows), none
\* of the glyphs the drop still holds is at a visible row of 0 .. rows - 1.
TailClearedAtRecycle ==
  \A i \in DOMAIN drops :
    (pc = "idle" /\ drops[i].y - drops[i].tail >= rows) =>
      HeldRows(i) \cap (0..(rows - 1)) = {}

\* a step that runs _update_rain, or a handler that returns to the event loop
\* without allocating
FrameStep == pc \in {"idle", "update"} /\ pc' = "idle"

\* C16: the tail length of every drop lies in min_tail .. max_tail in every
\* reachable state; a frame leaves the tail length, the column, the width and
\* the mode of every drop that it does not recycle as they were; no frame
\* changes the number of drops.
NonRecyclingFrame ==
  /\ [](\A i \in DOMAIN drops :
          min_tail <= drops[i].tail /\ drops[i].tail <= max_tail)
  /\ [][FrameStep =>
          /\ Len(drops') = Len(drops)
          /\ Len(drop_items') = Len(drop_items)
          /\ \A i \in DOMAIN drops :
               ~(drops[i].y - drops[i].tail >= rows) =>
                 /\ drops'[i].tail = drops[i].tail
                 /\ drops'[i].x = drops[i].x
                 /\ drops'[i].width = drops[i].width
                 /\ drops'[i].mode = drops[i].mode]_vars

\* a frame has drawn a hex drop of width 2 and the longest tail in place
NonRecyclingFrameWitness ==
  \E i \in DOMAIN drops :
    /\ pc = "idle"
    /\ ev[i].kind = "render"
    /\ drops[i].tail = max_tail
    /\ drops[i].width = 2
    /\ drops[i].mode = "hex"
    /\ min_tail < max_tail

\* the number of places in the histories where handle id is held
Holders(id) ==
  Cardinality(UNION {{<<i, k>> : k \in {n \in DOMAIN drop_items[i] :
                                          drop_items[i][n] = id}} :
                     i \in DOMAIN drop_items})

\* C17: in every reachable state every glyph on the canvas is held in exactly
\* one place of exactly one drop's history, and every handle held in a history
\* is on the canvas.
NoOrphanedGlyphs ==
  /\ \A id \in ItemIds(canvas) : Holders(id) = 1
  /\ HeldIds(drop_items) \subseteq ItemIds(canvas)

\* _reset_rain has run down to its call of _init_canvas_dimensions
ResetStep == pc = "idle" /\ pc' = "init_dims" /\ caller' = "reset_init"

\* C18: at most one _update_rain callback is scheduled in every reachable
\* state, and it is the one _after_id names; every reset of a loaded file
\* leaves none scheduled before it starts its own chain of frames.
SingleTickLoop ==
  /\ [](Cardinality(pending) <= 1 /\ pending \subseteq {after_id})
  /\ [][ResetStep => pending' = {}]_vars

\* a reset has cancelled the scheduled frame of a running animation
SingleTickLoopWitness ==
  /\ pc = "init_dims"
  /\ caller = "reset_init"
  /\ running
  /\ after_id # 0
  /\ pending = {}

\* the step in which drop i was allocated or recycled
Spawned(i) == ev[i].kind \in {"alloc", "recycle"}

\* C19: the head row of every drop lies in -rows .. rows + tail in every
\* reachable state, and in -rows .. 0 right after the drop has been allocated
\* or recycled; no frame advances a head that has reached rows + tail.
HeadRowRange ==
  /\ [](\A i \in DOMAIN drops :
          /\ -rows <= drops[i].y
          /\ drops[i].y <= rows + drops[i].tail
          /\ Spawned(i) => drops[i].y <= 0)
  /\ [][UpdateStep =>
          \A i \in DOMAIN drops :
            drops[i].y >= rows + drops[i].tail => drops'[i].y <= 0]_vars

\* drop i exists and the frames are in charge of it
Raining(i) == i \in DOMAIN drops /\ pc \in {"idle", "update"}

\* C20: on a grid with at least one row, while the frames keep firing and no
\* reset occurs, every drop is recycled again and again; a drop whose head is
\* above the grid draws a glyph before it is recycled: it is not recycled
\* while its head is above the grid, the frame that moves the head from row
\* -1 to row 0 draws it, and that frame comes.
RainContinues ==
  /\ \A i \in 1..MaxCols : Raining(i) ~> (Raining(i) /\ ev[i].kind = "recycle")
  /\ \A i \in 1..MaxCols :
       (Raining(i) /\ drops[i].y < 0) ~> (Raining(i) /\ ev[i].kind = "render")
  /\ [][UpdateStep =>
          \A i \in DOMAIN drops :
            /\ drops[i].y < 0 => ev'[i].kind # "recycle"
            /\ drops[i].y = -1 => ev'[i].kind = "render"]_vars

\* a frame has recycled a drop to a row above the grid while the rain runs
RainContinuesWitness ==
  \E i \in DOMAIN drops :
    /\ running
    /\ pc = "idle"
    /\ ev[i].kind = "recycle"
    /\ drops[i].y < 0
    /\ rows >= 1

====
